---- MODULE Spec2Model ----
(***************************************************************************)
(* Model of ImageDownloader.download_images (src/pkg/image_downloader.py). *)
(*                                                                         *)
(* Strings that the code splits on '/' or on the filename extension are    *)
(* kept split: a reference is the sequence of its '/'-separated segments,  *)
(* and a segment or filename is the pair (stem, suffix) that pathlib       *)
(* exposes.  Joining with '/' is sequence concatenation.  hashlib digests  *)
(* are modelled as injective (collision resistance).                       *)
(***************************************************************************)
EXTENDS Integers, Sequences, FiniteSets, TLC

\* ------------------------------------------------------------------ bounds
MaxImages == 2      \* longest input list
MaxClock == 1       \* last second the wall clock can show
MaxRepeated == 1    \* longest input list that is downloaded a second time

\* ------------------------------------------------------- values of the model
Seg(stem, suffix) == [stem |-> stem, suffix |-> suffix]

NameA == Seg("a", ".png")
NameB == Seg("b", ".png")
FileNames == {NameA, NameB}          \* names a server can suggest
Contents == {"X", "Y"}               \* byte payloads

BaseX == <<Seg("https:", ""), Seg("", ""), Seg("x", ".test")>>   \* https://x.test
U1 == BaseX \o <<Seg("img", ""), NameA>>    \* https://x.test/img/a.png
U2 == <<Seg("https:", ""), Seg("", ""), Seg("y", ".test"), NameB>>  \* https://y.test/b.png
R1 == <<NameA>>                             \* a.png
R2 == <<Seg("img", ""), NameA>>             \* img/a.png
References == {U1, U2, R1, R2}
BaseUrls == {<<>>, BaseX}
SkipLists == {{}, {U1}}
InitialDirs == {<<>>, [n \in {NameA} |-> "X"]}

ImagesDirName == "images"

NoFetch == [ok |-> FALSE, content |-> "", filename |-> Seg("", "")]
FetchResults == {NoFetch} \cup
                {[ok |-> TRUE, content |-> c, filename |-> f] : c \in Contents, f \in FileNames}

VARIABLES
    article_base_url,            \* self._article_base_url ('' is <<>>)
    skip_list,                   \* self._skip_list
    skip_all_errors,             \* self._skip_all_errors
    deduplication,               \* self._deduplication
    skip_on_existing_filename,   \* self._skip_on_existing_filename
    overwrite,                   \* self._overwrite
    files0,                      \* content of the target directory before the call
    run,                         \* one download_images call: locals, directory, clock
    twin                         \* what another call on the same inputs returned

config == <<article_base_url, skip_list, skip_all_errors, deduplication,
            skip_on_existing_filename, overwrite, files0>>
vars == <<config, run, twin>>

\* --------------------------------------------------------------- helpers
Last(s) == s[Len(s)]

RECURSIVE SeqsUpTo(_, _)
SeqsUpTo(S, n) ==
    IF n = 0 THEN {<<>>}
    ELSE LET shorter == SeqsUpTo(S, n - 1)
         IN shorter \cup {Append(s, x) : s \in {t \in shorter : Len(t) = n - 1}, x \in S}

\* dict.setdefault(k, v)
SetDefault(m, k, v) ==
    IF k \in DOMAIN m THEN m
    ELSE [x \in DOMAIN m \cup {k} |-> IF x = k THEN v ELSE m[x]]

\* dict[k] = v, and open(path, 'wb').write(data)
Put(m, k, v) == [x \in DOMAIN m \cup {k} |-> IF x = k THEN v ELSE m[x]]

\* pkg.www_tools.is_url: scheme, '//' and a host
is_url(ref) ==
    /\ Len(ref) >= 3
    /\ ref[1] \in {Seg("http:", ""), Seg("https:", "")}
    /\ ref[2] = Seg("", "")
    /\ ref[3] # Seg("", "")

\* the repair keeping only the last segment of the reference
JoinBaseLastSegment(base, ref) == base \o <<Last(ref)>>

\* f'{self._article_base_url}/{img_url}'
JoinBase(base, ref) == base \o ref

Md5Hex(url) == "md5" \o ToString(url)          \* hashlib.md5(url.encode()).hexdigest()
Sha256(content) == <<"sha256", content>>      \* hashlib.sha256(content).digest()
TimeStamp(t) == ToString(t)                   \* strftime("%Y%m%d_%H%M%S") in second t

\* Path(self._images_dir.name, img_filename)
DocPath(img_filename) == <<ImagesDirName, img_filename>>

\* ------------------------------------------------------ state of one call
NewRun(images, files, now) ==
    [images |-> images,
     img_num |-> 1,                    \* position of the loop, 1-based
     pc |-> "loop",                    \* "loop", "returned", "raised"
     error |-> "",                     \* the exception that left the call
     replacement_mapping |-> <<>>,
     hash_to_path_mapping |-> <<>>,
     files |-> files,                  \* target directory: filename -> content
     now |-> now,                      \* second of the latest strftime call
     fetched |-> <<>>,                 \* log of download_from_url calls
     written |-> <<>>,                 \* log of _write_image calls
     origin |-> <<>>,                  \* mapping key -> input position that set it
     result |-> <<>>]                  \* the returned mapping

\* what the caller of download_images sees of a call
Outcome(st) ==
    [images |-> st.images, pc |-> st.pc, error |-> st.error, result |-> st.result,
     now |-> st.now, files |-> st.files]

Init ==
    /\ article_base_url \in BaseUrls
    /\ skip_list \in SkipLists
    /\ skip_all_errors \in BOOLEAN
    /\ deduplication \in BOOLEAN
    /\ skip_on_existing_filename \in BOOLEAN
    /\ overwrite \in BOOLEAN
    /\ files0 \in InitialDirs
    /\ \E images \in SeqsUpTo(References, MaxImages) :
          /\ run = NewRun(images, files0, 0)
          /\ twin = [Outcome(NewRun(<<>>, files0, 0)) EXCEPT !.pc = "idle"]

\* ------------------------------------------- download_images, one iteration
ImgUrl(st) == st.images[st.img_num]              \* img_url as enumerate gives it

InLoop(st) == st.pc = "loop" /\ st.img_num <= Len(st.images)

\* PreFetch without the skip of lines 68-70: a reference that is not a URL is
\* handed to the fetcher even when there is no base URL
PreFetchNoValiditySkip(st) ==
    LET img_url == ImgUrl(st) IN
    IF img_url \in DOMAIN st.replacement_mapping THEN "assert"
    ELSE IF img_url \in skip_list THEN "skip_list"
    ELSE IF skip_on_existing_filename /\ Len(img_url) < 2 THEN "index_error"
    ELSE IF skip_on_existing_filename /\ Last(img_url) \in DOMAIN st.files THEN "existing"
    ELSE "download"

\* PreFetch with the existing-file probe moved in front of the skip list check
PreFetchProbeFirst(st) ==
    LET img_url == ImgUrl(st) IN
    IF img_url \in DOMAIN st.replacement_mapping THEN "assert"
    ELSE IF skip_on_existing_filename /\ Len(img_url) < 2 THEN "index_error"
    ELSE IF skip_on_existing_filename /\ Last(img_url) \in DOMAIN st.files THEN "existing"
    ELSE IF img_url \in skip_list THEN "skip_list"
    ELSE IF ~is_url(img_url) /\ article_base_url = <<>> THEN "incorrect"
    ELSE "download"

\* The part of the loop body before download_from_url: which way it leaves.
PreFetch(st) ==
    LET img_url == ImgUrl(st) IN
    IF img_url \in DOMAIN st.replacement_mapping THEN "assert"
    ELSE IF img_url \in skip_list THEN "skip_list"
    ELSE IF skip_on_existing_filename /\ Len(img_url) < 2 THEN "index_error"
    ELSE IF skip_on_existing_filename /\ Last(img_url) \in DOMAIN st.files THEN "existing"
    ELSE IF ~is_url(img_url) /\ article_base_url = <<>> THEN "incorrect"
    ELSE "download"

\* img_url after the base URL repair: the argument of download_from_url and
\* the key of every later setdefault
FetchUrl(st) ==
    IF is_url(ImgUrl(st)) THEN ImgUrl(st) ELSE JoinBase(article_base_url, ImgUrl(st))

\* PostFetch with the except clause re-raising whatever skip_all_errors says
PostFetchAlwaysRaises(st, res) ==
    IF ~res.ok THEN "error_raised"
    ELSE IF deduplication /\ Sha256(res.content) \in DOMAIN st.hash_to_path_mapping
         THEN "dedup"
         ELSE "save"

\* The part after download_from_url returned or raised.
PostFetch(st, res) ==
    IF ~res.ok THEN (IF skip_all_errors THEN "error_skipped" ELSE "error_raised")
    ELSE IF deduplication /\ Sha256(res.content) \in DOMAIN st.hash_to_path_mapping
         THEN "dedup"
         ELSE "save"

Raise(st, e) == [st EXCEPT !.pc = "raised", !.error = e]

\* continue that leaves the loop at the same reference
ContinueSamePosition(st) == st

Continue(st) == [st EXCEPT !.img_num = @ + 1]

\* replacement_mapping.setdefault(key, path)
MapTo(st, key, path) ==
    [st EXCEPT !.replacement_mapping = SetDefault(@, key, path),
               !.origin = SetDefault(@, key, st.img_num)]

Downloaded(st, res) ==
    [st EXCEPT !.fetched = Append(@, [pos |-> st.img_num, url |-> FetchUrl(st), res |-> res])]

WriteImage(st, img_filename, data, existed) ==
    [st EXCEPT !.files = Put(@, img_filename, data),
               !.written = Append(@, [pos |-> st.img_num,
                                      filename |-> img_filename,
                                      content |-> data,
                                      existed |-> existed,   \* is_file() of line 99
                                      clobbered |-> IF img_filename \in DOMAIN st.files
                                                    THEN {st.files[img_filename]} ELSE {}])]

\* _get_unique_imge_filename numbering the colliding names instead of hashing
UniqueImgeFilenameCounter(replacement_mapping, img_url, img_filename) ==
    IF \E url \in DOMAIN replacement_mapping :
          replacement_mapping[url] = DocPath(img_filename) /\ img_url # url
    THEN [stem |-> img_filename.stem \o "_" \o ToString(Cardinality(DOMAIN replacement_mapping)),
          suffix |-> img_filename.suffix]
    ELSE img_filename

UniqueImgeFilename(replacement_mapping, img_url, img_filename) ==
    IF \E url \in DOMAIN replacement_mapping :
          replacement_mapping[url] = DocPath(img_filename) /\ img_url # url
    THEN [stem |-> img_filename.stem \o "_" \o Md5Hex(img_url), suffix |-> img_filename.suffix]
    ELSE img_filename

\* lines 98-101 appending the timestamp after the extension
ExistingFileRenameAfterSuffix(files, img_filename, t) ==
    IF img_filename \in DOMAIN files /\ ~overwrite
    THEN [stem |-> img_filename.stem \o img_filename.suffix \o "_" \o TimeStamp(t),
          suffix |-> ""]
    ELSE img_filename

\* lines 98-101 without the test of self._overwrite
ExistingFileRenameIgnoresOverwrite(files, img_filename, t) ==
    IF img_filename \in DOMAIN files
    THEN [stem |-> img_filename.stem \o "_" \o TimeStamp(t), suffix |-> img_filename.suffix]
    ELSE img_filename

\* lines 98-101: the name the file is written under
ExistingFileRename(files, img_filename, t) ==
    IF img_filename \in DOMAIN files /\ ~overwrite
    THEN [stem |-> img_filename.stem \o "_" \o TimeStamp(t), suffix |-> img_filename.suffix]
    ELSE img_filename

SkipExisting(st) == Continue(MapTo(st, ImgUrl(st), DocPath(Last(ImgUrl(st)))))

\* FetchAbort with the directory restored to what it was before the call
FetchAbortRollback(st, res) ==
    Raise([Downloaded(st, res) EXCEPT !.files = files0], "FetchError")

\* lines 76-81 with skip_all_errors off: the exception leaves download_images
FetchAbort(st, res) == Raise(Downloaded(st, res), "FetchError")

DedupHit(st, res) ==
    LET existing_img_filename == st.hash_to_path_mapping[Sha256(res.content)]
    IN Continue(MapTo(Downloaded(st, res), FetchUrl(st), DocPath(existing_img_filename)))

\* line 96: the name after the comparison with the mapping
ResolvedName(st, res) ==
    UniqueImgeFilename(st.replacement_mapping, FetchUrl(st), res.filename)

\* the iteration reaches line 100 and calls strftime
ReadsClock(st, res) ==
    /\ PreFetch(st) = "download" /\ PostFetch(st, res) = "save"
    /\ ExistingFileRename(st.files, ResolvedName(st, res), st.now) # ResolvedName(st, res)

\* the seconds strftime can return in this iteration: the clock does not go
\* back, and an iteration that does not call strftime does not see it
ClockReadings(st, res) == IF ReadsClock(st, res) THEN st.now..MaxClock ELSE {st.now}

\* lines 83-106; t is the second strftime returns if line 100 is reached
SaveImage(st, res, t) ==
    LET s1 == Downloaded(st, res)
        s2 == IF deduplication
              THEN [s1 EXCEPT !.hash_to_path_mapping = Put(@, Sha256(res.content), res.filename)]
              ELSE s1
        unique == ResolvedName(st, res)
        img_filename == ExistingFileRename(s2.files, unique, t)
        s3 == MapTo([s2 EXCEPT !.now = t], FetchUrl(st), DocPath(img_filename))
    IN Continue(WriteImage(s3, img_filename, res.content, unique \in DOMAIN s2.files))

\* return OrderedDict(sorted(replacement_mapping.items(), reverse=True)):
\* the same mapping in an order fixed by its keys
Return(st) == [st EXCEPT !.pc = "returned", !.result = st.replacement_mapping]

\* One whole iteration, given what download_from_url and strftime do if they
\* are called.
Iter(st, res, t) ==
    LET pre == PreFetch(st)
        post == PostFetch(st, res)
    IN CASE pre = "assert" -> Raise(st, "AssertionError")
         [] pre = "skip_list" -> Continue(st)
         [] pre = "index_error" -> Raise(st, "IndexError")
         [] pre = "existing" -> SkipExisting(st)
         [] pre = "incorrect" -> Continue(st)
         [] pre = "download" /\ post = "error_skipped" -> Continue(Downloaded(st, res))
         [] pre = "download" /\ post = "error_raised" -> FetchAbort(st, res)
         [] pre = "download" /\ post = "dedup" -> DedupHit(st, res)
         [] pre = "download" /\ post = "save" -> SaveImage(st, res, t)

\* ------------------------------------------------------------- actions
AssertAlreadyDownloaded ==
    /\ InLoop(run) /\ PreFetch(run) = "assert"
    /\ run' = Raise(run, "AssertionError")
    /\ UNCHANGED <<config, twin>>

SkipByList ==
    /\ InLoop(run) /\ PreFetch(run) = "skip_list"
    /\ run' = Continue(run)
    /\ UNCHANGED <<config, twin>>

ProbeIndexError ==
    /\ InLoop(run) /\ PreFetch(run) = "index_error"
    /\ run' = Raise(run, "IndexError")
    /\ UNCHANGED <<config, twin>>

SkipOnExistingFile ==
    /\ InLoop(run) /\ PreFetch(run) = "existing"
    /\ run' = SkipExisting(run)
    /\ UNCHANGED <<config, twin>>

SkipIncorrectUrl ==
    /\ InLoop(run) /\ PreFetch(run) = "incorrect"
    /\ run' = Continue(run)
    /\ UNCHANGED <<config, twin>>

DownloadErrorSkipped ==
    /\ InLoop(run) /\ PreFetch(run) = "download"
    /\ PostFetch(run, NoFetch) = "error_skipped"
    /\ run' = Continue(Downloaded(run, NoFetch))
    /\ UNCHANGED <<config, twin>>

DownloadErrorRaised ==
    /\ InLoop(run) /\ PreFetch(run) = "download"
    /\ PostFetch(run, NoFetch) = "error_raised"
    /\ run' = FetchAbort(run, NoFetch)
    /\ UNCHANGED <<config, twin>>

MapToDuplicate ==
    /\ InLoop(run) /\ PreFetch(run) = "download"
    /\ \E res \in FetchResults :
          /\ PostFetch(run, res) = "dedup"
          /\ run' = DedupHit(run, res)
    /\ UNCHANGED <<config, twin>>

SaveNewImage ==
    /\ InLoop(run) /\ PreFetch(run) = "download"
    /\ \E res \in FetchResults :
          /\ PostFetch(run, res) = "save"
          /\ \E t \in ClockReadings(run, res) : run' = SaveImage(run, res, t)
    /\ UNCHANGED <<config, twin>>

ReturnMapping ==
    /\ run.pc = "loop" /\ run.img_num > Len(run.images)
    /\ run' = Return(run)
    /\ UNCHANGED <<config, twin>>

Next ==
    \/ AssertAlreadyDownloaded
    \/ SkipByList
    \/ ProbeIndexError
    \/ SkipOnExistingFile
    \/ SkipIncorrectUrl
    \/ DownloadErrorSkipped
    \/ DownloadErrorRaised
    \/ MapToDuplicate
    \/ SaveNewImage
    \/ ReturnMapping

Spec == Init /\ [][Next]_vars

\* The loop is sequential code in one thread: as long as a statement is left
\* to run, and every call of download_from_url returns or raises, it runs.
LiveSpec == Spec /\ WF_vars(Next)

TypeOK ==
    /\ run.pc \in {"loop", "returned", "raised"}
    /\ run.img_num \in 1..(Len(run.images) + 1)
    /\ run.now \in 0..MaxClock
    /\ DOMAIN run.origin = DOMAIN run.replacement_mapping

Range(f) == {f[x] : x \in DOMAIN f}

\* ------------------------------------------------- a second call to compare
\* After the call returned, the same downloader configuration is called again
\* from the same initial directory on the same references, in the same or in
\* the opposite order, with clock readings of its own.  Each reference gets
\* the fetch result it got in the first call (a reference the first call never
\* fetched has no result to agree with and fails to fetch).
Reverse(s) == [k \in 1..Len(s) |-> s[Len(s) + 1 - k]]

TwinFetch(st) ==
    LET pos == IF st.images = run.images THEN st.img_num
               ELSE Len(run.images) + 1 - st.img_num
        same == {e \in Range(run.fetched) : e.pos = pos}
    IN IF same # {} THEN (CHOOSE e \in same : TRUE).res ELSE NoFetch

\* the states in which the loop of download_images can end, from state st on
RECURSIVE RunAll(_)
RunAll(st) ==
    IF st.pc # "loop" THEN {st}
    ELSE IF st.img_num > Len(st.images) THEN {Return(st)}
    ELSE LET res == TwinFetch(st)
         IN UNION {RunAll(after) :
                     after \in {Iter(st, res, t) : t \in ClockReadings(st, res)}}

TwinCall ==
    /\ run.pc = "returned" /\ twin.pc = "idle"
    /\ \E images \in {run.images, Reverse(run.images)} :
          \E end \in RunAll(NewRun(images, files0, 0)) : twin' = Outcome(end)
    /\ UNCHANGED <<config, run>>

NextTwin ==
    \/ Next
    \/ TwinCall

TwinSpec == Init /\ [][NextTwin]_vars

\* ------------------------------------- calling the same downloader again
\* download_images is called once more on the same ImageDownloader with the
\* same list, after the first call returned or raised.  The locals of lines
\* 42-43 are new; the directory is as the first call left it and the clock
\* goes on.  twin keeps what the first call left behind.

\* NextRun with hash_to_path_mapping kept on the downloader between calls
NextRunKeepsHashes(st, images) ==
    [NewRun(images, st.files, st.now) EXCEPT
        !.hash_to_path_mapping = st.hash_to_path_mapping]

NextRun(st, images) == NewRun(images, st.files, st.now)

CallAgain ==
    /\ run.pc \in {"returned", "raised"} /\ twin.pc = "idle"
    /\ Len(run.images) <= MaxRepeated
    /\ run' = NextRun(run, run.images)
    /\ twin' = [Outcome(run) EXCEPT !.pc = "previous"]
    /\ UNCHANGED config

NextAgain ==
    \/ Next
    \/ CallAgain

AgainSpec == Init /\ [][NextAgain]_vars

\* --------------------------------------------------------------- claims
Positions == 1..Len(run.images)
OkFetches == {e \in Range(run.fetched) : e.res.ok}
FailedFetches == {e \in Range(run.fetched) : ~e.res.ok}
WritesAt(p) == {w \in Range(run.written) : w.pos = p}

\* the file a local path of the mapping names, if the directory has it
FileAt(path) == {n \in DOMAIN run.files : DocPath(n) = path}

\* C1: with deduplication enabled, two references fetched with byte-identical
\* content lead to exactly one written file for that content, both map to the
\* same local path, that path names the file that holds the content, and the
\* second reference causes no write.
C1_DedupOneFileOnePath ==
    deduplication =>
        \A e1, e2 \in OkFetches :
            (e1.pos < e2.pos /\ e1.res.content = e2.res.content) =>
                /\ Cardinality({k \in DOMAIN run.written :
                                   run.written[k].content = e1.res.content}) = 1
                /\ e1.url \in DOMAIN run.replacement_mapping
                /\ e2.url \in DOMAIN run.replacement_mapping
                /\ run.replacement_mapping[e1.url] = run.replacement_mapping[e2.url]
                /\ \E n \in FileAt(run.replacement_mapping[e1.url]) :
                      run.files[n] = e1.res.content
                /\ WritesAt(e2.pos) = {}

\* C2: no two mapping entries whose references were fetched with distinct
\* content have the same local path.
C2_DistinctContentDistinctPath ==
    \A e1, e2 \in OkFetches :
        (/\ e1.url \in DOMAIN run.origin /\ run.origin[e1.url] = e1.pos
         /\ e2.url \in DOMAIN run.origin /\ run.origin[e2.url] = e2.pos
         /\ e1.res.content # e2.res.content) =>
            run.replacement_mapping[e1.url] # run.replacement_mapping[e2.url]

\* C3: with overwrite disabled, no write targets a filename at which a file
\* with different content exists (from before the call or from this call).
C3_NoClobberWithoutOverwrite ==
    ~overwrite => \A w \in Range(run.written) : w.clobbered \subseteq {w.content}

\* C4: a reference that is in the skip list triggers no fetch, no write and
\* no mapping entry, at any position and under any configuration.
C4_SkipListExact ==
    /\ \A e \in Range(run.fetched) : run.images[e.pos] \notin skip_list
    /\ \A w \in Range(run.written) : run.images[w.pos] \notin skip_list
    /\ \A p \in Range(run.origin) : run.images[p] \notin skip_list

\* a skip-listed reference was passed and the call went on to map another one
C4_Witness ==
    /\ run.pc = "returned"
    /\ \E p, q \in Positions :
          /\ p < q
          /\ run.images[p] \in skip_list
          /\ q \in Range(run.origin)
          /\ WritesAt(q) # {}

\* C5: every key of the returned mapping is a reference of the input list as
\* it was given.
C5_KeysAreOriginalReferences ==
    run.pc = "returned" => DOMAIN run.result \subseteq Range(run.images)

\* C6: a reference that was mapped earlier in the call is never processed
\* again: reaching it raises before any skip-list check, fetch or write.
C6_DuplicateReferenceIsFatal ==
    \A p, q \in Positions :
        (p < q /\ run.images[p] = run.images[q] /\ p \in Range(run.origin)) =>
            /\ run.img_num <= q
            /\ \A e \in Range(run.fetched) : e.pos # q
            /\ WritesAt(q) = {}
            /\ (run.img_num = q /\ run.pc = "raised") => run.error = "AssertionError"

\* the directory after the writes of a log, in order
RECURSIVE Replay(_, _)
Replay(files, log) ==
    IF log = <<>> THEN files
    ELSE Replay(Put(files, Head(log).filename, Head(log).content), Tail(log))

DistinctValidUrls ==
    /\ \A p \in Positions : is_url(run.images[p])
    /\ \A p, q \in Positions : p # q => run.images[p] # run.images[q]

\* C8: with skip_all_errors enabled a fetch failure never leaves the call as
\* an exception; the failing reference gets no mapping entry and no file; for
\* a list of distinct valid URLs the returned mapping has exactly one entry
\* per reference whose fetch succeeded.
C8_FetchErrorsSkipped ==
    skip_all_errors =>
        /\ run.error # "FetchError"
        /\ \A e \in FailedFetches :
              /\ WritesAt(e.pos) = {}
              /\ e.pos \notin Range(run.origin)
              /\ run.img_num > e.pos
        /\ (run.pc = "returned" /\ DistinctValidUrls) =>
              /\ run.img_num = Len(run.images) + 1
              /\ \A e \in FailedFetches : run.images[e.pos] \notin DOMAIN run.result
              /\ \A e \in OkFetches : run.images[e.pos] \in DOMAIN run.result
              /\ Cardinality({k \in DOMAIN run.result : run.origin[k] \in {e.pos : e \in OkFetches}})
                    = Cardinality(OkFetches)

\* the first fetch failed, the second reference was still fetched and mapped
C8_Witness ==
    /\ skip_all_errors
    /\ run.pc = "returned"
    /\ DistinctValidUrls
    /\ \E e1 \in FailedFetches, e2 \in OkFetches : e1.pos < e2.pos
    /\ Cardinality(DOMAIN run.result) = 1

\* C9: with skip_all_errors disabled the first fetch failure ends the call
\* with that error: nothing is returned, nothing after it is fetched or
\* written, and the directory is the initial one plus the writes made before
\* the failure.
C9_AbortKeepsWrittenFiles ==
    (~skip_all_errors /\ FailedFetches # {}) =>
        /\ run.pc = "raised"
        /\ run.error = "FetchError"
        /\ run.result = <<>>
        /\ \A e \in FailedFetches :
              /\ e = run.fetched[Len(run.fetched)]
              /\ run.img_num = e.pos
              /\ \A w \in Range(run.written) : w.pos < e.pos
              /\ \A f \in Range(run.fetched) : f.pos <= e.pos
        /\ run.files = Replay(files0, run.written)

\* a file was written, then a fetch failed and the file is still there
C9_Witness ==
    /\ ~skip_all_errors
    /\ run.error = "FetchError"
    /\ run.written # <<>>
    /\ run.files # files0
    /\ \A w \in Range(run.written) :
          w.filename \in DOMAIN run.files /\ run.files[w.filename] = w.content

\* pairs of fetches of two different references with the same suggested name
CollidingFetches ==
    {pair \in OkFetches \X OkFetches :
        /\ pair[1].pos < pair[2].pos
        /\ pair[1].url # pair[2].url
        /\ run.images[pair[1].pos] # run.images[pair[2].pos]
        /\ pair[1].res.filename = pair[2].res.filename}

BothCallsReturned == run.pc = "returned" /\ twin.pc = "returned"

\* no write of the call took the timestamp branch of lines 99-101
NoTimestampRename == overwrite \/ \A w \in Range(run.written) : ~w.existed

\* an earlier entry of another reference already has the suggested local path
CollidesWithEarlier(e) ==
    \E k \in DOMAIN run.origin :
        /\ run.origin[k] < e.pos
        /\ k # e.url
        /\ run.replacement_mapping[k] = DocPath(e.res.filename)

HashedName(e) ==
    [stem |-> e.res.filename.stem \o "_" \o Md5Hex(e.url), suffix |-> e.res.filename.suffix]

C10_MappingIgnoresClock ==
    (BothCallsReturned /\ twin.images = run.images) => twin.result = run.result

\* C10 as amended: the same, provided overwrite is enabled or no file was
\* written under a name that was already a file of the directory.
C10_MappingIgnoresClockUnlessRenamed ==
    (BothCallsReturned /\ twin.images = run.images /\ NoTimestampRename) =>
        twin.result = run.result

\* two calls replaced an existing file and agree
C10_Witness ==
    /\ BothCallsReturned
    /\ twin.images = run.images
    /\ overwrite
    /\ \E w \in Range(run.written) : w.existed
    /\ Cardinality(DOMAIN run.result) = 2
    /\ twin.result = run.result

\* the iteration at hand gets past the assertion, the skip list and the
\* existing-filename probe, and so classifies its reference at line 63
ReachesValidityCheck ==
    /\ InLoop(run)
    /\ ImgUrl(run) \notin DOMAIN run.replacement_mapping
    /\ ImgUrl(run) \notin skip_list
    /\ skip_on_existing_filename =>
          (Len(ImgUrl(run)) >= 2 /\ Last(ImgUrl(run)) \notin DOMAIN run.files)

C12_ProbeNeverRaises ==
    skip_on_existing_filename =>
        /\ run.error \notin {"IndexError", "OSError"}
        /\ \A p \in Positions :
              (Len(run.images[p]) < 2 /\ run.img_num = p) => run.pc # "raised"

\* C13: with skip_on_existing_filename enabled, a reference that is not in
\* the skip list (and not yet a mapping key) whose final path segment names a
\* file of the target directory is mapped to <images dir name>/<segment>; the
\* iteration calls no fetcher, writes nothing and leaves the directory as is.
C13_ExistingFileMappedWithoutFetch ==
    [][(/\ InLoop(run)
        /\ skip_on_existing_filename
        /\ ImgUrl(run) \notin skip_list
        /\ ImgUrl(run) \notin DOMAIN run.replacement_mapping
        /\ Last(ImgUrl(run)) \in DOMAIN run.files) =>
          /\ run'.pc = "loop"
          /\ ImgUrl(run) \in DOMAIN run'.replacement_mapping
          /\ run'.replacement_mapping[ImgUrl(run)] = DocPath(Last(ImgUrl(run)))
          /\ run'.fetched = run.fetched
          /\ run'.written = run.written
          /\ run'.files = run.files]_vars

\* the step is an iteration whose fetch succeeded
FetchSucceeds ==
    /\ Len(run'.fetched) = Len(run.fetched) + 1
    /\ Last(run'.fetched).pos = run.img_num
    /\ Last(run'.fetched).res.ok

\* the content fetched in this step was fetched earlier in the call, with
\* deduplication enabled
IsDedupHit ==
    /\ deduplication
    /\ \E e \in OkFetches : e.res.content = Last(run'.fetched).res.content

\* C14: when a fetch succeeds for a reference that did not occur earlier in
\* the list, is not a dedup hit, no entry of the mapping has the local path of
\* the suggested filename and the directory has no file of that name, the
\* file is written under the suggested filename and the reference (under the
\* URL it was fetched from) maps to <images dir name>/<suggested filename>.
C14_SuggestedNamePreserved ==
    [][(/\ FetchSucceeds
        /\ \A p \in 1..(run.img_num - 1) : run.images[p] # ImgUrl(run)
        /\ ~IsDedupHit
        /\ \A k \in DOMAIN run.replacement_mapping :
              run.replacement_mapping[k] # DocPath(Last(run'.fetched).res.filename)
        /\ Last(run'.fetched).res.filename \notin DOMAIN run.files) =>
          LET e == Last(run'.fetched) IN
          /\ Len(run'.written) = Len(run.written) + 1
          /\ Last(run'.written).pos = run.img_num
          /\ Last(run'.written).filename = e.res.filename
          /\ Last(run'.written).content = e.res.content
          /\ e.url \in DOMAIN run'.replacement_mapping
          /\ run'.replacement_mapping[e.url] = DocPath(e.res.filename)]_vars

\* the filename of a fetch after the comparison with the mapping entries
UniqueName(e) == IF CollidesWithEarlier(e) THEN HashedName(e) ELSE e.res.filename

\* C15: when the filename resolved for a fetched reference is already a file
\* of the target directory, then with overwrite enabled the file is written
\* under that name and replaces the existing file, and with overwrite disabled
\* it is written under <stem>_<timestamp><extension> and the existing file
\* keeps its content.
C15_ExistingFileReplacedOrKept ==
    [][(/\ FetchSucceeds
        /\ ~IsDedupHit
        /\ UniqueName(Last(run'.fetched)) \in DOMAIN run.files) =>
          LET e == Last(run'.fetched)
              unique == UniqueName(e)
              w == Last(run'.written)
          IN /\ Len(run'.written) = Len(run.written) + 1
             /\ w.pos = run.img_num
             /\ w.content = e.res.content
             /\ run'.files[w.filename] = e.res.content
             /\ overwrite => w.filename = unique
             /\ ~overwrite =>
                   /\ run'.now \in run.now..MaxClock
                   /\ w.filename = [stem |-> unique.stem \o "_" \o TimeStamp(run'.now),
                                    suffix |-> unique.suffix]
                   /\ run'.files[unique] = run.files[unique]]_vars

\* a.png was in the directory; a fetch resolved to a.png was written under a
\* timestamped name and a.png still has its content
C15_Witness ==
    /\ ~overwrite
    /\ NameA \in DOMAIN files0
    /\ \E w \in Range(run.written) :
          /\ w.existed
          /\ w.filename = [stem |-> "a_" \o TimeStamp(run.now), suffix |-> ".png"]
          /\ w.content = "Y"
          /\ run.files[NameA] = files0[NameA]

\* C16: a step that fetches successfully and writes nothing (a dedup hit)
\* happens only with deduplication enabled and after a fetch of the same
\* content earlier in the same call; with deduplication disabled every
\* successful fetch is followed by exactly one write.  Files of the directory
\* and fetches of an earlier call are in neither condition.
C16_DedupScopedToCall ==
    [][FetchSucceeds =>
          /\ (run'.written = run.written) =>
                /\ deduplication
                /\ \E e \in OkFetches :
                      e.pos < run.img_num /\ e.res.content = Last(run'.fetched).res.content
          /\ (run'.written # run.written) =>
                /\ Len(run'.written) = Len(run.written) + 1
                /\ Last(run'.written).pos = run.img_num
                /\ Last(run'.written).content = Last(run'.fetched).res.content
          /\ ~deduplication => run'.written # run.written]_vars

\* with deduplication enabled, content X is in the directory from the start,
\* the first call fetched X and wrote it, and the second call fetched X and
\* wrote it again
C16_Witness ==
    /\ deduplication
    /\ twin.pc = "previous"
    /\ \E n \in DOMAIN files0 : files0[n] = "X"
    /\ \E n \in DOMAIN twin.files \ DOMAIN files0 : twin.files[n] = "X"
    /\ \E e \in OkFetches : e.res.content = "X" /\ WritesAt(e.pos) # {}

StepInOrder ==
    /\ run'.images = run.images
    /\ run'.img_num \in {run.img_num, run.img_num + 1}
    /\ \/ run'.fetched = run.fetched
       \/ /\ InLoop(run)
          /\ run'.fetched = Append(run.fetched, Last(run'.fetched))
          /\ Last(run'.fetched).pos = run.img_num
          /\ \A e \in Range(run.fetched) : e.pos < run.img_num
    /\ \/ run'.written = run.written
       \/ /\ run'.fetched # run.fetched
          /\ run'.written = Append(run.written, Last(run'.written))
          /\ Last(run'.written).pos = run.img_num
          /\ \A w \in Range(run.written) : w.pos < run.img_num
    /\ (InLoop(run) /\ run'.pc = "loop") => run'.img_num = run.img_num + 1

\* C18: references are processed one at a time in input order: at most one
\* fetch per input position, fetches in the order of the list, the write or
\* skip of a reference done before the next reference is fetched, never more
\* than len(images) fetches, and the call ends (returns or raises).
C18_SequentialInOrder ==
    /\ [][StepInOrder]_vars
    /\ [](Len(run.fetched) <= Len(run.images))
    /\ <>(run.pc \in {"returned", "raised"})

\* the call returned after fetching and writing both references, in order
C18_Witness ==
    /\ run.pc = "returned"
    /\ Len(run.images) = 2
    /\ Len(run.fetched) = 2
    /\ run.fetched[1].pos = 1 /\ run.fetched[2].pos = 2
    /\ Len(run.written) = 2
    /\ run.written[1].pos = 1 /\ run.written[2].pos = 2

\* C19: when the call returns, for every mapping entry that a fetch produced
\* (by a write or by a dedup hit) the file of the target directory at the
\* mapped filename holds exactly the bytes fetched for that reference.
C19_MappedFileHoldsFetchedBytes ==
    run.pc = "returned" =>
        \A e \in OkFetches :
            (e.url \in DOMAIN run.result /\ run.origin[e.url] = e.pos) =>
                \E n \in FileAt(run.result[e.url]) : run.files[n] = e.res.content

\* C20: the 'already downloaded' assertion is raised only at a reference
\* whose string occurs at an earlier position of the list; a list of pairwise
\* distinct strings never raises it.
C20_AssertionOnlyOnRepeatedString ==
    run.error = "AssertionError" =>
        \E p \in 1..(run.img_num - 1) : run.images[p] = run.images[run.img_num]

====
